---------------------------- MODULE Spec2Model ----------------------------
(***************************************************************************)
(* Model of the portfolio web server in src/cmd/server/main.go.            *)
(*                                                                         *)
(* The process runs main(): open store, ensure schema, seed, load          *)
(* templates, register routes, listen.  Every inbound request is one task  *)
(* that goes through logRequests, the ServeMux and one handler; a handler  *)
(* issues its store reads one after the other and then renders.            *)
(*                                                                         *)
(* Strings the code inspects (request paths, slugs) are sequences of       *)
(* one-character strings, so that HasPrefix / TrimSuffix / path cleaning   *)
(* are computed and not assumed.                                           *)
(***************************************************************************)
EXTENDS Integers, Sequences, FiniteSets, TLC

VARIABLES
    phase,      \* position of main(): the startup step to run next, "serving" or "exited"
    steps,      \* startup steps that have run to completion, in order
    exitCode,   \* process exit code once exited, -1 while running
    store,      \* contents of the relational store behind Server.store
    templates,  \* Server.templates: template name -> parsed template
    reqs,       \* in-flight requests: one handler invocation per slot
    hadError    \* some request has already been answered 500

vars == <<phase, steps, exitCode, store, templates, reqs, hadError>>

-----------------------------------------------------------------------------
(* strings *)

HasPrefix(s, prefix) ==
    /\ Len(s) >= Len(prefix)
    /\ SubSeq(s, 1, Len(prefix)) = prefix

HasSuffix(s, suffix) ==
    /\ Len(s) >= Len(suffix)
    /\ SubSeq(s, Len(s) - Len(suffix) + 1, Len(s)) = suffix

TrimPrefix(s, prefix) ==
    IF HasPrefix(s, prefix) THEN SubSeq(s, Len(prefix) + 1, Len(s)) ELSE s

TrimSuffix(s, suffix) ==
    IF HasSuffix(s, suffix) THEN SubSeq(s, 1, Len(s) - Len(suffix)) ELSE s

PathRoot == <<"/">>
PathIndexHtml == <<"/","i","n","d","e","x",".","h","t","m","l">>
PathBlog == <<"/","b","l","o","g">>
PathBlogHtml == <<"/","b","l","o","g",".","h","t","m","l">>
PathResearch == <<"/","r","e","s","e","a","r","c","h">>
PathResearchHtml == <<"/","r","e","s","e","a","r","c","h",".","h","t","m","l">>
PathResume == <<"/","r","e","s","u","m","e">>
PathResumeHtml == <<"/","r","e","s","u","m","e",".","h","t","m","l">>
PathResearchSlash == <<"/","r","e","s","e","a","r","c","h","/">>
PathAssetsSlash == <<"/","a","s","s","e","t","s","/">>
PathStyles == <<"/","s","t","y","l","e","s",".","c","s","s">>
ResearchPrefix == <<"/","r","e","s","e","a","r","c","h","-">>
HtmlSuffix == <<".","h","t","m","l">>

\* researchSlug with the suffix left on the slug
researchSlugKeepsSuffix(path) ==
    IF HasPrefix(path, ResearchPrefix) /\ HasSuffix(path, HtmlSuffix)
    THEN TrimPrefix(path, ResearchPrefix)
    ELSE <<>>

\* researchSlug: the path without "/research-" and ".html", "" for any other path
researchSlug(path) ==
    IF HasPrefix(path, ResearchPrefix) /\ HasSuffix(path, HtmlSuffix)
    THEN TrimSuffix(TrimPrefix(path, ResearchPrefix), HtmlSuffix)
    ELSE <<>>

-----------------------------------------------------------------------------
(* net/http.ServeMux as main() configures it *)

RECURSIVE SplitSlash(_, _, _)
\* the "/"-separated elements of s, empty elements included
SplitSlash(s, cur, acc) ==
    IF s = <<>> THEN Append(acc, cur)
    ELSE IF Head(s) = "/" THEN SplitSlash(Tail(s), <<>>, Append(acc, cur))
    ELSE SplitSlash(Tail(s), Append(cur, Head(s)), acc)

RECURSIVE CleanElems(_, _)
\* path.Clean on a rooted path: drop "" and ".", let ".." remove the element before it
CleanElems(elems, out) ==
    IF elems = <<>> THEN out
    ELSE LET e == Head(elems) IN
         IF e = <<>> \/ e = <<".">> THEN CleanElems(Tail(elems), out)
         ELSE IF e = <<".", ".">>
              THEN CleanElems(Tail(elems),
                              IF out = <<>> THEN out ELSE SubSeq(out, 1, Len(out) - 1))
              ELSE CleanElems(Tail(elems), Append(out, e))

RECURSIVE JoinRooted(_)
JoinRooted(elems) ==
    IF elems = <<>> THEN <<>>
    ELSE <<"/">> \o Head(elems) \o JoinRooted(Tail(elems))

\* net/http cleanPath: the canonical form of a request path, trailing slash kept
cleanPath(p) ==
    IF p = <<>> THEN PathRoot
    ELSE LET rooted == IF Head(p) = "/" THEN p ELSE <<"/">> \o p
             joined == JoinRooted(CleanElems(SplitSlash(rooted, <<>>, <<>>), <<>>))
             np     == IF joined = <<>> THEN PathRoot ELSE joined
         IN  IF rooted[Len(rooted)] = "/" /\ np # PathRoot THEN np \o <<"/">> ELSE np

\* the patterns registered on the mux, in registration order
Patterns == <<
    [pattern |-> PathRoot,         handler |-> "handleRoot"],
    [pattern |-> PathIndexHtml,    handler |-> "handleIndex"],
    [pattern |-> PathBlog,         handler |-> "handleBlog"],
    [pattern |-> PathBlogHtml,     handler |-> "handleBlog"],
    [pattern |-> PathResearch,     handler |-> "handleResearch"],
    [pattern |-> PathResearchHtml, handler |-> "handleResearch"],
    [pattern |-> PathResume,       handler |-> "handleResume"],
    [pattern |-> PathResumeHtml,   handler |-> "handleResume"],
    [pattern |-> PathAssetsSlash,  handler |-> "assets"],
    [pattern |-> PathStyles,       handler |-> "styles"] >>

IsSubtree(pattern) == pattern[Len(pattern)] = "/"

\* a pattern ending in "/" matches every path below it, any other pattern one path
PatternMatches(pattern, path) ==
    IF IsSubtree(pattern) THEN HasPrefix(path, pattern) ELSE path = pattern

\* the handler of the longest matching pattern ("/" matches every rooted path)
MuxMatch(path) ==
    LET hits == {k \in DOMAIN Patterns : PatternMatches(Patterns[k].pattern, path)}
    IN  IF hits = {} THEN "NotFound"
        ELSE LET best == CHOOSE k \in hits :
                            \A j \in hits : Len(Patterns[j].pattern) <= Len(Patterns[k].pattern)
             IN  Patterns[best].handler

\* The mux's own redirects, <<>> when it has none: a subtree root named without
\* its trailing slash goes to the subtree root, and a path that is not in
\* canonical form goes to its canonical form (CONNECT requests are not cleaned).
MuxRedirect(method, path) ==
    LET p == IF method = "CONNECT" THEN path ELSE cleanPath(path)
        exact == \E k \in DOMAIN Patterns :
                    ~IsSubtree(Patterns[k].pattern) /\ Patterns[k].pattern = p
        subtreeRoot == /\ p # <<>>
                       /\ p[Len(p)] # "/"
                       /\ \E k \in DOMAIN Patterns : Patterns[k].pattern = p \o <<"/">>
    IN  IF ~exact /\ subtreeRoot THEN p \o <<"/">>
        ELSE IF p # path THEN p
        ELSE <<>>

-----------------------------------------------------------------------------
(* the content store (package internal/store, used through Server.store) *)

\* one row as a handler sees it: the table it came from and the contents it reflects
Row(table, content, slug) == [table |-> table, content |-> content, slug |-> slug]

EmptyStore  == [content |-> "empty",  slugs |-> {}]
SeededStore == [content |-> "seed",   slugs |-> {<<"a">>}]
CustomStore == [content |-> "custom", slugs |-> {<<"a">>, <<"a","/","b">>}]

\* the database as the process may find it at startup
InitialStores == {EmptyStore, CustomStore}

\* SeedIfEmpty inserts the default content only into an empty store
SeedIfEmpty(st) == IF st.content = "empty" THEN SeededStore ELSE st

Ok(val)    == [err |-> "", val |-> val]
Failed(e)  == [err |-> e,  val |-> <<>>]

\* what a read returns when the backend answers
ReadValue(call, st, slug) ==
    CASE call = "GetSettings"         -> Ok(<<Row("settings", st.content, <<>>)>>)
      [] call = "ListAboutParagraphs" -> Ok(<<Row("about_paragraphs", st.content, <<>>)>>)
      [] call = "ListSkillGroups"     -> Ok(<<Row("skill_groups", st.content, <<>>)>>)
      [] call = "ListTrustBadges"     -> Ok(<<Row("trust_badges", st.content, <<>>)>>)
      [] call = "ListBlogPosts"       -> Ok(<<Row("blog_posts", st.content, <<>>)>>)
      [] call = "ListResearchItems"   -> Ok(<<Row("research_items", st.content, <<>>)>>)
      [] call = "ListExperiences"     -> Ok(<<Row("experiences", st.content, <<>>)>>)
      [] call = "GetResearchPage"     ->
            IF slug \in st.slugs
            THEN Ok(<<Row("research_pages", st.content, slug)>>)
            ELSE Failed("ErrNoRows")

\* every result a read can have: its value, or a backend error
ReadResults(call, st, slug) == {ReadValue(call, st, slug), Failed("backend")}

-----------------------------------------------------------------------------
(* http.ResponseWriter *)

ZeroPageData ==
    [ActiveTab |-> "", Settings |-> <<>>, About |-> <<>>, Skills |-> <<>>,
     Badges |-> <<>>, BlogPosts |-> <<>>, ResearchItems |-> <<>>,
     ResearchPage |-> <<>>, Experiences |-> <<>>]

TextChunk(kind, text) ==
    [kind |-> kind, text |-> text, template |-> "", data |-> ZeroPageData]

PageChunk(kind, name, data) ==
    [kind |-> kind, text |-> "", template |-> name, data |-> data]

\* a response nothing has been written to; status 0 until the header is written
NewWriter ==
    [wroteHeader |-> FALSE, status |-> 0, location |-> <<>>, contentType |-> "",
     body |-> <<>>]

\* headers set after the status line went out do not reach the client
SetLocation(w, url)   == IF w.wroteHeader THEN w ELSE [w EXCEPT !.location = url]
SetContentType(w, ct) == IF w.wroteHeader THEN w ELSE [w EXCEPT !.contentType = ct]

\* only the first WriteHeader of a response takes effect
WriteHeader(w, code) ==
    IF w.wroteHeader THEN w ELSE [w EXCEPT !.wroteHeader = TRUE, !.status = code]

\* the first Write sends status 200 if no header was written before it
Write(w, chunk) ==
    LET h == WriteHeader(w, 200) IN [h EXCEPT !.body = Append(h.body, chunk)]

\* http.Error: a plain-text line with the given status
HttpError(w, msg, code) ==
    Write(WriteHeader(SetContentType(w, "text/plain; charset=utf-8"), code),
          TextChunk("text", msg))

NotFound(w) == HttpError(w, "404 page not found", 404)

StatusMovedPermanently == 301
StatusInternalServerError == 500

\* http.Redirect: Location and status; GET requests also get a short note as body
Redirect(w, method, url, code) ==
    LET l == SetLocation(w, url)
        t == IF method \in {"GET", "HEAD"}
             THEN SetContentType(l, "text/html; charset=utf-8") ELSE l
        h == WriteHeader(t, code)
    IN  IF method = "GET" THEN Write(h, TextChunk("redirect", "Moved Permanently")) ELSE h

\* respondError sending the cause instead of the fixed text
respondErrorLeaksCause(w) ==
    HttpError(w, "request error: backend", StatusInternalServerError)

respondError(w) == HttpError(w, "Internal Server Error", StatusInternalServerError)

-----------------------------------------------------------------------------
(* the page handlers *)

\* the local variables of one handler invocation, before any read
ZeroLocals ==
    [settings |-> <<>>, about |-> <<>>, skills |-> <<>>, badges |-> <<>>,
     posts |-> <<>>, items |-> <<>>, experiences |-> <<>>, page |-> <<>>]

Call(call, into) == [call |-> call, into |-> into]

\* the store reads of each handler, in program order, and the local each one fills
HandlerReads(h) ==
    CASE h = "handleIndex" ->
            << Call("GetSettings", "settings"), Call("ListAboutParagraphs", "about"),
               Call("ListSkillGroups", "skills"), Call("ListTrustBadges", "badges") >>
      [] h = "handleBlog" ->
            << Call("GetSettings", "settings"), Call("ListBlogPosts", "posts") >>
      [] h = "handleResearch" ->
            << Call("GetSettings", "settings"), Call("ListResearchItems", "items") >>
      [] h = "handleResume" ->
            << Call("GetSettings", "settings"), Call("ListExperiences", "experiences"),
               Call("ListTrustBadges", "badges"), Call("ListSkillGroups", "skills") >>
      [] h = "serveResearchDetail" ->
            << Call("GetSettings", "settings"), Call("GetResearchPage", "page") >>
      [] OTHER -> << >>

\* the PageData each handler assembles from its locals
HandlerData(h, loc) ==
    CASE h = "handleIndex" ->
            [ZeroPageData EXCEPT !.ActiveTab = "about", !.Settings = loc.settings,
                                 !.About = loc.about, !.Skills = loc.skills,
                                 !.Badges = loc.badges]
      [] h = "handleBlog" ->
            [ZeroPageData EXCEPT !.ActiveTab = "blog", !.Settings = loc.settings,
                                 !.BlogPosts = loc.posts]
      [] h = "handleResearch" ->
            [ZeroPageData EXCEPT !.ActiveTab = "research", !.Settings = loc.settings,
                                 !.ResearchItems = loc.items]
      [] h = "handleResume" ->
            [ZeroPageData EXCEPT !.ActiveTab = "resume", !.Settings = loc.settings,
                                 !.Experiences = loc.experiences,
                                 !.Badges = loc.badges, !.Skills = loc.skills]
      [] h = "serveResearchDetail" ->
            [ZeroPageData EXCEPT !.ActiveTab = "research", !.Settings = loc.settings,
                                 !.ResearchPage = loc.page]
      [] OTHER -> ZeroPageData

\* handleBlog rendering the index template
HandlerTemplateCopied(h) ==
    CASE h = "handleIndex"         -> "index"
      [] h = "handleBlog"          -> "index"
      [] h = "handleResearch"      -> "research"
      [] h = "handleResume"        -> "resume"
      [] h = "serveResearchDetail" -> "research_detail"
      [] OTHER -> ""

\* the template name each handler passes to render
HandlerTemplate(h) ==
    CASE h = "handleIndex"         -> "index"
      [] h = "handleBlog"          -> "blog"
      [] h = "handleResearch"      -> "research"
      [] h = "handleResume"        -> "resume"
      [] h = "serveResearchDetail" -> "research_detail"
      [] OTHER -> ""

\* the names loadTemplates parses, each from templates/<name>.html
TemplateNames == {"index", "blog", "research", "resume", "research_detail"}

loadTemplates == [name \in TemplateNames |-> name \o ".html"]

\* how ExecuteTemplate can end: done, failed before any output, failed after some
ExecOutcomes == {"ok", "errorBeforeOutput", "errorAfterOutput"}

\* Server.render
render(w, tmpls, name, data, exec) ==
    IF name \notin DOMAIN tmpls THEN respondError(w)
    ELSE LET h == SetContentType(w, "text/html; charset=utf-8") IN
         CASE exec = "ok" -> Write(h, PageChunk("page", name, data))
           [] exec = "errorBeforeOutput" -> respondError(h)
           [] exec = "errorAfterOutput" ->
                respondError(Write(h, PageChunk("partial", name, data)))

-----------------------------------------------------------------------------
(* one request *)

Idle ==
    [st |-> "idle", method |-> "", path |-> <<>>, handler |-> "", slug |-> <<>>,
     loc |-> ZeroLocals, reads |-> <<>>, err |-> "", exec |-> "", w |-> NewWriter]

\* a request whose response is complete
Answered(method, path, handler, w) ==
    [Idle EXCEPT !.st = "done", !.method = method, !.path = path,
                 !.handler = handler, !.w = w]

\* a request that is about to issue the first store read of a page handler
Reading(method, path, handler, slug) ==
    [Idle EXCEPT !.st = "run", !.method = method, !.path = path,
                 !.handler = handler, !.slug = slug]

\* the path check at the top of handleIndex, handleBlog, handleResearch, handleResume
PageHandler(method, path, handler, accepted) ==
    IF path \notin accepted
    THEN Answered(method, path, handler, NotFound(NewWriter))
    ELSE Reading(method, path, handler, <<>>)

handleIndex(method, path) ==
    PageHandler(method, path, "handleIndex", {PathRoot, PathIndexHtml})

handleBlog(method, path) ==
    PageHandler(method, path, "handleBlog", {PathBlog, PathBlogHtml})

handleResearch(method, path) ==
    PageHandler(method, path, "handleResearch", {PathResearch, PathResearchHtml})

handleResume(method, path) ==
    PageHandler(method, path, "handleResume", {PathResume, PathResumeHtml})

\* handleRoot taking every path that starts with /research- for a detail page
handleRootPrefixOnly(method, path) ==
    IF path = PathRoot \/ path = PathIndexHtml THEN handleIndex(method, path)
    ELSE IF path = PathResearchSlash
    THEN Answered(method, path, "handleRoot",
                  Redirect(NewWriter, method, PathResearch, StatusMovedPermanently))
    ELSE IF HasPrefix(path, ResearchPrefix)
    THEN Reading(method, path, "serveResearchDetail", researchSlug(path))
    ELSE Answered(method, path, "handleRoot", NotFound(NewWriter))

\* handleRoot redirecting /research/ to the page's other name
handleRootRedirectsToHtml(method, path) ==
    IF path = PathRoot \/ path = PathIndexHtml THEN handleIndex(method, path)
    ELSE IF path = PathResearchSlash
    THEN Answered(method, path, "handleRoot",
                  Redirect(NewWriter, method, PathResearchHtml, StatusMovedPermanently))
    ELSE IF HasPrefix(path, ResearchPrefix) /\ HasSuffix(path, HtmlSuffix)
    THEN Reading(method, path, "serveResearchDetail", researchSlug(path))
    ELSE Answered(method, path, "handleRoot", NotFound(NewWriter))

handleRoot(method, path) ==
    IF path = PathRoot \/ path = PathIndexHtml THEN handleIndex(method, path)
    ELSE IF path = PathResearchSlash
    THEN Answered(method, path, "handleRoot",
                  Redirect(NewWriter, method, PathResearch, StatusMovedPermanently))
    ELSE IF HasPrefix(path, ResearchPrefix) /\ HasSuffix(path, HtmlSuffix)
    THEN Reading(method, path, "serveResearchDetail", researchSlug(path))
    ELSE Answered(method, path, "handleRoot", NotFound(NewWriter))

\* the file handlers: what they answer depends on the disk alone
StaticOutcomes == {200, 404}

serveStatic(method, path, handler, disk) ==
    Answered(method, path, handler,
             Write(WriteHeader(NewWriter, disk), TextChunk("file", "")))

\* logRequests, then ServeMux.ServeHTTP: the request up to its first store read
Dispatch(method, path, disk) ==
    LET to == MuxRedirect(method, path) IN
    IF to # <<>>
    THEN Answered(method, path, "mux",
                  Redirect(NewWriter, method, to, StatusMovedPermanently))
    ELSE LET h == MuxMatch(path) IN
         CASE h = "handleRoot"     -> handleRoot(method, path)
           [] h = "handleIndex"    -> handleIndex(method, path)
           [] h = "handleBlog"     -> handleBlog(method, path)
           [] h = "handleResearch" -> handleResearch(method, path)
           [] h = "handleResume"   -> handleResume(method, path)
           [] h \in {"assets", "styles"} -> serveStatic(method, path, h, disk)
           [] OTHER -> Answered(method, path, "mux", NotFound(NewWriter))

\* the locals kept in one place for all requests
LocalsShared(rs, i) == rs[1].loc

\* the locals a handler invocation reads and writes: its own
Locals(rs, i) == rs[i].loc

\* a handler that drops the error of a read and goes on with the zero value
AfterReadIgnoresError(r, loc, res) ==
    LET c     == HandlerReads(r.handler)[Len(r.reads) + 1]
        reads == Append(r.reads,
                        [call |-> c.call, err |-> res.err,
                         arg |-> IF c.call = "GetResearchPage" THEN r.slug ELSE <<>>])
    IN  [r EXCEPT !.reads = reads, !.loc = [loc EXCEPT ![c.into] = res.val]]

\* the handler after its next store read returned res
AfterRead(r, loc, res) ==
    LET c     == HandlerReads(r.handler)[Len(r.reads) + 1]
        reads == Append(r.reads,
                        [call |-> c.call, err |-> res.err,
                         arg |-> IF c.call = "GetResearchPage" THEN r.slug ELSE <<>>])
    IN  IF res.err = ""
        THEN [r EXCEPT !.reads = reads, !.loc = [loc EXCEPT ![c.into] = res.val]]
        ELSE IF c.call = "GetResearchPage" /\ res.err = "ErrNoRows"
        THEN [r EXCEPT !.reads = reads, !.err = res.err, !.st = "done",
                       !.w = NotFound(r.w)]
        ELSE [r EXCEPT !.reads = reads, !.err = res.err, !.st = "done",
                       !.w = respondError(r.w)]

\* the handler after all its reads succeeded: assemble PageData and render
AfterRender(r, loc, tmpls, exec) ==
    [r EXCEPT !.st = "done", !.exec = exec, !.loc = loc,
              !.w = render(r.w, tmpls, HandlerTemplate(r.handler),
                           HandlerData(r.handler, loc), exec)]

-----------------------------------------------------------------------------
(* main(): startup *)

StartupOrder == <<"open", "schema", "seed", "templates", "listen">>

\* how each startup step can end; the two store steps run under the 10 s context
StepOutcomes(step) ==
    IF step \in {"schema", "seed"} THEN {"ok", "error", "timeout"} ELSE {"ok", "error"}

\* main() logging a failed step and going on
AfterStepLogsOnly(step, outcome) ==
    CASE step = "open"      -> "schema"
      [] step = "schema"    -> "seed"
      [] step = "seed"      -> "templates"
      [] step = "templates" -> "listen"
      [] step = "listen"    -> "serving"

\* where main() goes after a step: on, or out through log.Fatalf
AfterStep(step, outcome) ==
    IF outcome # "ok" THEN "exited"
    ELSE CASE step = "open"      -> "schema"
           [] step = "schema"    -> "seed"
           [] step = "seed"      -> "templates"
           [] step = "templates" -> "listen"
           [] step = "listen"    -> "serving"

RunStep(step, outcome) ==
    /\ phase = step
    /\ phase' = AfterStep(step, outcome)
    /\ steps' = Append(steps, [step |-> step, outcome |-> outcome])
    /\ exitCode' = IF outcome # "ok" THEN 1 ELSE exitCode
    /\ UNCHANGED <<reqs, hadError>>

OpenStore ==
    \E outcome \in StepOutcomes("open") :
        RunStep("open", outcome) /\ UNCHANGED <<store, templates>>

EnsureSchema ==
    \E outcome \in StepOutcomes("schema") :
        RunStep("schema", outcome) /\ UNCHANGED <<store, templates>>

Seed ==
    \E outcome \in StepOutcomes("seed") :
        /\ RunStep("seed", outcome)
        /\ store' = IF outcome = "ok" THEN SeedIfEmpty(store) ELSE store
        /\ UNCHANGED templates

LoadTemplates ==
    \E outcome \in StepOutcomes("templates") :
        /\ RunStep("templates", outcome)
        /\ templates' = IF outcome = "ok" THEN loadTemplates ELSE templates
        /\ UNCHANGED store

Listen ==
    \E outcome \in StepOutcomes("listen") :
        RunStep("listen", outcome) /\ UNCHANGED <<store, templates>>

Startup == OpenStore \/ EnsureSchema \/ Seed \/ LoadTemplates \/ Listen

-----------------------------------------------------------------------------
(* requests *)

\* the methods requests are sent with (a CONNECT request, whose path the mux
\* does not clean, is not among them)
Methods == {"GET", "POST", "DELETE"}

PathAssets == <<"/","a","s","s","e","t","s">>
PathAssetFile == <<"/","a","s","s","e","t","s","/","a">>
PathMissing == <<"/","x">>
PathBlogSlash == <<"/","b","l","o","g","/">>
PathDotDotBlog == <<"/","x","/",".",".","/","b","l","o","g">>
PathDoubleSlash == <<"/","/">>
PathDetailNoSuffix == <<"/","r","e","s","e","a","r","c","h","-","a">>
PathDetailHtm == <<"/","r","e","s","e","a","r","c","h","-","a",".","h","t","m">>
PathDetailBare == <<"/","r","e","s","e","a","r","c","h","-">>

DetailPath(slug) == ResearchPrefix \o slug \o HtmlSuffix

\* the slugs requests ask for: stored ones, one no store has, the empty one, and
\* one that makes the path non-canonical
Slugs == {<<"a">>, <<"a","/","b">>, <<"b">>, <<>>, <<"a","/","/","b">>}

TablePaths ==
    {PathRoot, PathIndexHtml, PathBlog, PathBlogHtml,
     PathResearch, PathResearchHtml, PathResume, PathResumeHtml}

Paths ==
    TablePaths
    \cup {DetailPath(slug) : slug \in Slugs}
    \cup {PathResearchSlash, PathAssets, PathAssetFile, PathStyles, PathMissing,
          PathBlogSlash, PathDotDotBlog, PathDoubleSlash,
          PathDetailNoSuffix, PathDetailHtm, PathDetailBare}

\* the paths of the runs with several requests in flight: pages that share
\* reads (index and resume), one that shares only the settings, and a detail page
PagePaths ==
    {PathRoot, PathBlog, PathResume, DetailPath(<<"a">>)}

Slots == DOMAIN reqs

\* a request arrives and runs up to its first store read
Arrive(i, method, path, disk) ==
    /\ phase = "serving"
    /\ reqs[i].st = "idle"
    /\ reqs' = [reqs EXCEPT ![i] = Dispatch(method, path, disk)]
    /\ UNCHANGED <<phase, steps, exitCode, store, templates, hadError>>

ArriveAny ==
    \E i \in Slots, method \in Methods, path \in Paths, disk \in StaticOutcomes :
        Arrive(i, method, path, disk)

ArrivePage ==
    \E i \in Slots, path \in PagePaths : Arrive(i, "GET", path, 200)

\* the handler's next store read returns
StoreRead(i) ==
    /\ reqs[i].st = "run"
    /\ Len(reqs[i].reads) < Len(HandlerReads(reqs[i].handler))
    /\ \E res \in ReadResults(HandlerReads(reqs[i].handler)[Len(reqs[i].reads) + 1].call,
                              store, reqs[i].slug) :
          LET r == AfterRead(reqs[i], Locals(reqs, i), res) IN
          /\ reqs' = [reqs EXCEPT ![i] = r]
          /\ hadError' = (hadError \/ r.w.status = StatusInternalServerError)
    /\ UNCHANGED <<phase, steps, exitCode, store, templates>>

\* all reads succeeded: the handler renders its template
Render(i) ==
    /\ reqs[i].st = "run"
    /\ Len(reqs[i].reads) = Len(HandlerReads(reqs[i].handler))
    /\ \E exec \in ExecOutcomes :
          LET r == AfterRender(reqs[i], Locals(reqs, i), templates, exec) IN
          /\ reqs' = [reqs EXCEPT ![i] = r]
          /\ hadError' = (hadError \/ r.w.status = StatusInternalServerError)
    /\ UNCHANGED <<phase, steps, exitCode, store, templates>>

\* the handler has returned and the response is out: the task ends
Finish(i) ==
    /\ reqs[i].st = "done"
    /\ reqs' = [reqs EXCEPT ![i] = Idle]
    /\ UNCHANGED <<phase, steps, exitCode, store, templates, hadError>>

Serve == \E i \in Slots : StoreRead(i) \/ Render(i) \/ Finish(i)

-----------------------------------------------------------------------------
(* specifications *)

InitCommon ==
    /\ phase = "open"
    /\ steps = <<>>
    /\ exitCode = -1
    /\ store \in InitialStores
    /\ templates = <<>>
    /\ hadError = FALSE

\* one request at a time, any method and any path
Init == InitCommon /\ reqs = <<Idle>>

Next == Startup \/ ArriveAny \/ Serve

Spec == Init /\ [][Next]_vars

\* several requests in flight, each to one of the pages
MaxInFlight == 2

InitConc == InitCommon /\ reqs = [i \in 1..MaxInFlight |-> Idle]

NextConc == Startup \/ ArrivePage \/ Serve

SpecConc == InitConc /\ [][NextConc]_vars

-----------------------------------------------------------------------------
(* what the claims talk about *)

Active == {i \in Slots : reqs[i].st # "idle"}
Done   == {i \in Slots : reqs[i].st = "done"}

\* the chunks of rendered page, whole or partial, in a response
PageChunks(w) == {k \in DOMAIN w.body : w.body[k].kind \in {"page", "partial"}}

IsDetailPath(path) == HasPrefix(path, ResearchPrefix) /\ HasSuffix(path, HtmlSuffix)

\* the routing table of the specification: page of each path
TablePage(path) ==
    CASE path \in {PathRoot, PathIndexHtml}        -> "index"
      [] path \in {PathBlog, PathBlogHtml}         -> "blog"
      [] path \in {PathResearch, PathResearchHtml} -> "research"
      [] path \in {PathResume, PathResumeHtml}     -> "resume"
      [] IsDetailPath(path)                        -> "research_detail"
      [] OTHER                                     -> ""

TableTab(page) ==
    CASE page = "index" -> "about"
      [] page = "blog" -> "blog"
      [] page \in {"research", "research_detail"} -> "research"
      [] page = "resume" -> "resume"
      [] OTHER -> ""

\* the store reads of each page, in the order the specification lists them
TableReads(page) ==
    CASE page = "index" ->
            <<"GetSettings", "ListAboutParagraphs", "ListSkillGroups", "ListTrustBadges">>
      [] page = "blog" -> <<"GetSettings", "ListBlogPosts">>
      [] page = "research" -> <<"GetSettings", "ListResearchItems">>
      [] page = "resume" ->
            <<"GetSettings", "ListExperiences", "ListTrustBadges", "ListSkillGroups">>
      [] page = "research_detail" -> <<"GetSettings", "GetResearchPage">>
      [] OTHER -> << >>

Stored(call, slug) == ReadValue(call, store, slug).val

\* the page data of the table: the active tab and what the store holds
TableData(page, slug) ==
    LET tab == [ZeroPageData EXCEPT !.ActiveTab = TableTab(page),
                                    !.Settings = Stored("GetSettings", <<>>)]
    IN  CASE page = "index" ->
                [tab EXCEPT !.About = Stored("ListAboutParagraphs", <<>>),
                            !.Skills = Stored("ListSkillGroups", <<>>),
                            !.Badges = Stored("ListTrustBadges", <<>>)]
          [] page = "blog" -> [tab EXCEPT !.BlogPosts = Stored("ListBlogPosts", <<>>)]
          [] page = "research" ->
                [tab EXCEPT !.ResearchItems = Stored("ListResearchItems", <<>>)]
          [] page = "resume" ->
                [tab EXCEPT !.Experiences = Stored("ListExperiences", <<>>),
                            !.Badges = Stored("ListTrustBadges", <<>>),
                            !.Skills = Stored("ListSkillGroups", <<>>)]
          [] page = "research_detail" ->
                [tab EXCEPT !.ResearchPage = Stored("GetResearchPage", slug)]

\* a whole page of the table and nothing else
IsTablePage(w, page, slug) ==
    /\ w.status = 200
    /\ w.body = <<PageChunk("page", page, TableData(page, slug))>>

-----------------------------------------------------------------------------
\* C1: when the store reads succeed and the template renders, a request to a
\* path of the routing table is answered 200 with the table's template, active
\* tab and data; the answer depends on the table row only, so both paths of a
\* pair give the same page data.
C1_RoutingTable ==
    \A i \in Done :
        LET r == reqs[i] IN
        (r.path \in TablePaths /\ r.err = "") =>
            /\ r.exec # ""
            /\ r.exec = "ok" => IsTablePage(r.w, TablePage(r.path), <<>>)

C1_Witness ==
    \E i \in Done :
        /\ reqs[i].path = PathIndexHtml
        /\ reqs[i].w.status = 200
        /\ reqs[i].w.body[1].data.ActiveTab = "about"


-----------------------------------------------------------------------------
\* what C2 says of one finished request to a research-detail path, provided no
\* read met a backend error: the lookup is made with the path's slug; an
\* existing slug gives 200 with template research_detail, tab research and that
\* page (when the template renders); a missing slug gives 404 and no template
DetailAnswer(r) ==
    LET slug == TrimSuffix(TrimPrefix(r.path, ResearchPrefix), HtmlSuffix) IN
    /\ Len(r.reads) = 2
    /\ r.reads[2].call = "GetResearchPage"
    /\ r.reads[2].arg = slug
    /\ IF slug \in store.slugs
       THEN /\ r.exec # ""
            /\ r.exec = "ok" => IsTablePage(r.w, "research_detail", slug)
       ELSE /\ r.w.status = 404
            /\ r.exec = ""
            /\ PageChunks(r.w) = {}

-----------------------------------------------------------------------------
\* C3: a store read failure other than the research page's not-found is
\* answered 500 with the body "Internal Server Error" and no rendered page;
\* the process keeps serving, and a later table request whose reads succeed
\* and whose template renders is answered 200 with its page.
C3_ReadFailure ==
    /\ \A i \in Done :
          LET r == reqs[i] IN
          /\ (r.err # "" /\ ~(r.err = "ErrNoRows" /\ r.handler = "serveResearchDetail")) =>
                /\ r.w.status = 500
                /\ r.w.body = <<TextChunk("text", "Internal Server Error")>>
                /\ r.exec = ""
          /\ (hadError /\ r.path \in TablePaths /\ r.err = "" /\ r.exec = "ok") =>
                IsTablePage(r.w, TablePage(r.path), <<>>)
    /\ hadError => (phase = "serving" /\ exitCode = -1)

C3_Witness ==
    /\ hadError
    /\ \E i \in Done :
          /\ reqs[i].path = PathResume
          /\ reqs[i].w.status = 200
          /\ PageChunks(reqs[i].w) # {}

-----------------------------------------------------------------------------
\* the paths C4 sets aside
Routed(path) ==
    \/ path \in TablePaths
    \/ path = PathResearchSlash
    \/ IsDetailPath(path)
    \/ path = PathStyles
    \/ HasPrefix(path, PathAssetsSlash)

\* C4 as stated: every other request path is answered 404 without a store read.
C4_AsStated ==
    \A i \in Active :
        ~Routed(reqs[i].path) =>
            /\ reqs[i].st = "done"
            /\ reqs[i].w.status = 404
            /\ reqs[i].reads = << >>

\* C4, amended: every other request path that is in canonical form and is not
\* /assets is answered 404; /assets and the paths not in canonical form are
\* answered 301; no such request issues a store read or renders, and a path
\* that starts with /research- but does not end in .html is never looked up.
C4_NotFound ==
    \A i \in Active :
        LET r == reqs[i] IN
        ~Routed(r.path) =>
            /\ r.st = "done"
            /\ r.reads = << >>
            /\ r.exec = ""
            /\ PageChunks(r.w) = {}
            /\ r.w.status = IF r.path = cleanPath(r.path) /\ r.path # PathAssets
                            THEN 404 ELSE 301

C4_Witness ==
    \E i \in Done :
        /\ reqs[i].path = PathDetailNoSuffix
        /\ reqs[i].w.status = 404
        /\ reqs[i].reads = << >>

-----------------------------------------------------------------------------
\* C5: whenever template execution fails, the client receives status 500,
\* also when part of the page was written before the failure.
C5_RenderFailureIs500 ==
    \A i \in Done :
        reqs[i].exec \in {"errorBeforeOutput", "errorAfterOutput"} =>
            reqs[i].w.status = 500

-----------------------------------------------------------------------------
\* C6: a request whose method is not GET is not answered with the rendered
\* 200 page of a routing-table path.
C6_GetOnly ==
    \A i \in Done :
        (reqs[i].method # "GET" /\ reqs[i].path \in TablePaths) =>
            ~(reqs[i].w.status = 200 /\ PageChunks(reqs[i].w) # {})

-----------------------------------------------------------------------------
\* C7: the startup steps run in the order open, schema, seed, templates,
\* listen; a step runs only after every earlier one succeeded; a failed or
\* timed-out step ends the process with a non-zero exit code; and a request is
\* served only after all five steps succeeded.
C7_Startup ==
    /\ Len(steps) <= Len(StartupOrder)
    /\ \A k \in DOMAIN steps :
          /\ steps[k].step = StartupOrder[k]
          /\ k < Len(steps) => steps[k].outcome = "ok"
    /\ (steps # << >> /\ steps[Len(steps)].outcome # "ok") =>
          /\ phase = "exited"
          /\ exitCode = 1
          /\ Active = {}
    /\ (phase = "serving" \/ Active # {}) =>
          /\ Len(steps) = Len(StartupOrder)
          /\ \A k \in DOMAIN steps : steps[k].outcome = "ok"

C7_Witness ==
    /\ phase = "exited"
    /\ Len(steps) = 3
    /\ steps[3] = [step |-> "seed", outcome |-> "timeout"]

-----------------------------------------------------------------------------
\* C8: a request to /research/ is answered 301 with Location /research,
\* without a store read and without rendering a template.
C8_ResearchSlash ==
    \A i \in Active :
        reqs[i].path = PathResearchSlash =>
            /\ reqs[i].st = "done"
            /\ reqs[i].w.status = 301
            /\ reqs[i].w.location = PathResearch
            /\ reqs[i].reads = << >>
            /\ reqs[i].exec = ""
            /\ PageChunks(reqs[i].w) = {}

C8_Witness ==
    \E i \in Done :
        /\ reqs[i].path = PathResearchSlash
        /\ reqs[i].method = "POST"
        /\ reqs[i].w.status = 301

-----------------------------------------------------------------------------
RECURSIVE RunAlone(_)
\* every way the request r can end when it is the only one in flight
RunAlone(r) ==
    IF r.st = "done" THEN {r}
    ELSE IF Len(r.reads) < Len(HandlerReads(r.handler))
    THEN UNION { RunAlone(AfterRead(r, r.loc, res)) :
                    res \in ReadResults(HandlerReads(r.handler)[Len(r.reads) + 1].call,
                                        store, r.slug) }
    ELSE UNION { RunAlone(AfterRender(r, r.loc, templates, exec)) : exec \in ExecOutcomes }

\* a finished request has one of the outcomes it has when handled alone, and
\* every piece of page in its response is of its own page: template, tab, data
OwnOutcome ==
    \A i \in Done :
        LET r == reqs[i]
            page == TablePage(r.path)
            slug == TrimSuffix(TrimPrefix(r.path, ResearchPrefix), HtmlSuffix)
        IN  /\ r \in RunAlone(Dispatch(r.method, r.path, 200))
            /\ \A k \in PageChunks(r.w) :
                  /\ r.w.body[k].template = page
                  /\ r.w.body[k].data = TableData(page, slug)

\* C9: under every interleaving of requests to different pages each response
\* holds only its own handler's page data and equals an outcome the request
\* has when handled alone against the same store; the store and the template
\* set are not written once the server serves.
C9_NoInterference ==
    /\ []OwnOutcome
    /\ [][phase = "serving" => (store' = store /\ templates' = templates)]_vars

C9_Witness ==
    \E i, j \in Slots :
        /\ reqs[i].st = "done"
        /\ reqs[i].w.status = 200
        /\ PageChunks(reqs[i].w) # {}
        /\ reqs[j].st = "run"
        /\ Len(reqs[j].reads) >= 1
        /\ reqs[i].handler # reqs[j].handler

-----------------------------------------------------------------------------
\* C10: a page handler issues its reads in the page's fixed order, settings
\* first, one at a time; after a read failed it issues no further read and
\* renders nothing; a settings failure on the research-detail page is answered
\* 500 without the slug lookup.
C10_ReadOrder ==
    \A i \in Active :
        LET r == reqs[i]
            order == TableReads(TablePage(r.path))
        IN  /\ Len(r.reads) <= Len(order)
            /\ \A k \in DOMAIN r.reads :
                  /\ r.reads[k].call = order[k]
                  /\ k < Len(r.reads) => r.reads[k].err = ""
            /\ (r.reads # << >> /\ r.reads[Len(r.reads)].err # "") =>
                  /\ r.st = "done"
                  /\ r.exec = ""
                  /\ PageChunks(r.w) = {}
            /\ r.exec # "" => Len(r.reads) = Len(order)
            /\ (IsDetailPath(r.path) /\ r.reads # << >> /\ r.reads[1].err # "") =>
                  /\ Len(r.reads) = 1
                  /\ r.w.status = 500

C10_Witness ==
    \E i \in Done :
        /\ IsDetailPath(reqs[i].path)
        /\ Len(reqs[i].reads) = 1
        /\ reqs[i].reads[1].err = "backend"
        /\ reqs[i].w.status = 500

=============================================================================
